---- MODULE Spec2Model ----
(***************************************************************************)
(* Model of the BF optimizing interpreter (interp.py) and of the per-      *)
(* instruction lowering of the JIT (jit.py).                               *)
(*                                                                         *)
(* Conventions.  A source is a sequence of one-character strings.  Python  *)
(* indices are 0-based and are kept as such: At(s, i) is s[i] of Python.   *)
(* IR indices stored in Open/Close args are 0-based as in the code.  An    *)
(* Opcode is a record [op, offset, arg]; the arg of a Copy is the dict of  *)
(* multipliers, kept as the sequence of <<key, value>> pairs in insertion  *)
(* order (the order a Python dict iterates in).                            *)
(***************************************************************************)
EXTENDS Integers, Sequences, FiniteSets, TLC

VARIABLES source, phase, opcodes, error, recog,
          data_input, pc, mptr, memory, stdin, out_buffer, outcome, reads,
          steps, budget, ref, jit, main_result

vars == <<source, phase, opcodes, error, recog,
          data_input, pc, mptr, memory, stdin, out_buffer, outcome, reads,
          steps, budget, ref, jit, main_result>>

(* ------------------------------ constants ------------------------------ *)

OP_ADD == 0
OP_SUB == 1
OP_RIGHT == 2
OP_LEFT == 3
OP_OUT == 4
OP_IN == 5
OP_OPEN_JMP == 6
OP_CLOSE_JMP == 7
OP_MOVE == 8
OP_CLEAR == 9
OP_COPY == 10
OP_SCANR == 11
OP_SCANL == 12

\* bytearray(30000) of evaluate, MEMORY_SIZE of the JIT
MEMORY_SIZE == 30000

\* the keys of instruction_opcode_map
InstrChars == {"+", "-", ">", "<", ".", ",", "[", "]"}

instr_to_opcode(c) ==
    CASE c = "+" -> OP_ADD
      [] c = "-" -> OP_SUB
      [] c = ">" -> OP_RIGHT
      [] c = "<" -> OP_LEFT
      [] c = "." -> OP_OUT
      [] c = "," -> OP_IN
      [] c = "[" -> OP_OPEN_JMP
      [] c = "]" -> OP_CLOSE_JMP

Opcode(op, offset, arg) == [op |-> op, offset |-> offset, arg |-> arg]

(* ------------------------------- helpers ------------------------------- *)

At(s, i) == s[i + 1]

\* s[a:b] of Python for 0 <= a, clipped to the length of s
Slice(s, a, b) ==
    LET hi == IF b < Len(s) THEN b ELSE Len(s)
    IN  IF a >= hi THEN <<>> ELSE SubSeq(s, a + 1, hi)

cleanup(src) == SelectSeq(src, LAMBDA x : x \in InstrChars)

\* number of characters from index i on that equal match: the count reached
\* when the while loop stops at the first index that is past the last one
\* tested or holds another character
RepeatsFrom(src, match, i) ==
    LET Goes(j) == j < Len(src) /\ At(src, j) = match
    IN  CHOOSE k \in 0..Len(src) :
            /\ \A j \in 0..(k - 1) : Goes(i + j)
            /\ ~Goes(i + k)

_get_repeated_count(src, start) == RepeatsFrom(src, At(src, start), start + 1)

(* --------------------------- loop recognizers --------------------------- *)

NoMatch == [ops |-> <<>>, n |-> 0]

_is_clearloop(code, size, index, mp) ==
    IF index < size - 3
       /\ Slice(code, index, index + 3) \in {<<"[", "+", "]">>, <<"[", "-", "]">>}
    THEN [ops |-> <<Opcode(OP_CLEAR, mp, 0)>>, n |-> 3]
    ELSE NoMatch

_is_scanloop(code, size, index, mp) ==
    IF index < size - 3 /\ Slice(code, index, index + 3) = <<"[", ">", "]">>
    THEN [ops |-> <<Opcode(OP_SCANR, mp, 0)>>, n |-> 3]
    ELSE IF index < size - 3 /\ Slice(code, index, index + 3) = <<"[", "<", "]">>
    THEN [ops |-> <<Opcode(OP_SCANL, mp, 0)>>, n |-> 3]
    ELSE NoMatch

\* mults[key] = value on a dict kept as pairs in insertion order
DictSet(d, key, value) ==
    IF \E j \in 1..Len(d) : d[j][1] = key
    THEN [j \in 1..Len(d) |-> IF d[j][1] = key THEN <<key, value>> ELSE d[j]]
    ELSE Append(d, <<key, value>>)

\* first while loop of _is_copyloop: the right moves and the increments
RECURSIVE CopyRightScan(_, _, _, _, _, _)
CopyRightScan(code, size, i, mult, depth, mults) ==
    IF i >= size
    THEN [rej |-> FALSE, i |-> i, depth |-> depth, mults |-> mults]
    ELSE IF At(code, i) \in {">", "<"}
    THEN LET m2 == IF mult > 0 THEN DictSet(mults, depth, mult) ELSE mults
             mu == IF mult > 0 THEN 0 ELSE mult
         IN  IF At(code, i) = "<"
             THEN [rej |-> FALSE, i |-> i, depth |-> depth, mults |-> m2]
             ELSE CopyRightScan(code, size, i + 1, mu, depth + 1, m2)
    ELSE IF At(code, i) = "+"
    THEN CopyRightScan(code, size, i + 1, mult + 1, depth, mults)
    ELSE [rej |-> TRUE, i |-> i, depth |-> depth, mults |-> mults]

\* second while loop of _is_copyloop: the left moves up to the "]"
RECURSIVE CopyLeftScan(_, _, _, _)
CopyLeftScan(code, size, i, depth) ==
    IF i < size /\ At(code, i) # "]"
    THEN IF At(code, i) # "<"
         THEN [rej |-> TRUE, i |-> i, depth |-> depth]
         ELSE CopyLeftScan(code, size, i + 1, depth - 1)
    ELSE [rej |-> FALSE, i |-> i, depth |-> depth]

_is_copyloop(code, size, index, mp) ==
    IF index > size - 6 THEN NoMatch
    ELSE IF At(code, index + 1) # "-" THEN NoMatch
    ELSE LET a == CopyRightScan(code, size, index + 2, 0, 0, <<>>)
         IN  IF a.rej THEN NoMatch
             ELSE IF Len(a.mults) = 0 \/ a.depth = 0 \/ a.i = size - 1 THEN NoMatch
             ELSE LET b == CopyLeftScan(code, size, a.i, a.depth)
                  IN  IF b.rej THEN NoMatch
                      ELSE IF b.depth # 0 \/ b.i = size - 1 THEN NoMatch
                      ELSE [ops |-> <<Opcode(OP_COPY, mp, a.mults)>>,
                            n |-> (b.i - index) + 1]

run_loop_optimizers(code, size, index, mp) ==
    LET r1 == _is_clearloop(code, size, index, mp)
        r2 == _is_copyloop(code, size, index, mp)
        r3 == _is_scanloop(code, size, index, mp)
    IN  IF r1.n > 0 THEN r1
        ELSE IF r2.n > 0 THEN r2
        ELSE IF r3.n > 0 THEN r3
        ELSE NoMatch

(* -------------------------------- parse -------------------------------- *)

ErrNone == "none"
ErrClose == "Unmatched ']' found"
ErrOpen == "Umatched '[' found"

\* NeedMove with the test of the pending drift left out
NeedMoveAlways(mp) == TRUE

\* if mptr != 0: a Move is emitted before the Open
NeedMove(mp) == mp # 0

\* LoopStartTop taking the outermost open loop instead
LoopStartBottom(loop_starts) == loop_starts[1]

\* loop_starts.pop(): the innermost open loop
LoopStartTop(loop_starts) == loop_starts[Len(loop_starts)]

\* one iteration of the while loop of parse on the state
\* st = [pc, mptr, opcodes, loop_starts, err]
ParseIter(code, size, st) ==
    LET opcode == instr_to_opcode(At(code, st.pc))
    IN  IF opcode = OP_OPEN_JMP
        THEN LET r == run_loop_optimizers(code, size, st.pc, st.mptr)
             IN  IF r.n > 0
                 THEN [st EXCEPT !.opcodes = @ \o r.ops, !.pc = @ + r.n, !.mptr = 0]
                 ELSE LET ops1 == IF NeedMove(st.mptr)
                                  THEN Append(st.opcodes, Opcode(OP_MOVE, 0, st.mptr))
                                  ELSE st.opcodes
                      IN  [st EXCEPT !.opcodes = Append(ops1, Opcode(OP_OPEN_JMP, 0, 0)),
                                     !.loop_starts = Append(@, Len(ops1)),
                                     !.mptr = 0,
                                     !.pc = @ + 1]
        ELSE IF opcode = OP_CLOSE_JMP
        THEN IF Len(st.loop_starts) = 0
             THEN [st EXCEPT !.err = ErrClose]
             ELSE LET loop_start == LoopStartTop(st.loop_starts)
                      loop_end == Len(st.opcodes)
                      patched == [st.opcodes EXCEPT ![loop_start + 1].arg = loop_end]
                  IN  [st EXCEPT !.loop_starts = SubSeq(@, 1, Len(@) - 1),
                                 !.opcodes = Append(patched,
                                               Opcode(OP_CLOSE_JMP, st.mptr, loop_start)),
                                 !.mptr = 0,
                                 !.pc = @ + 1]
        ELSE IF opcode \in {OP_IN, OP_OUT}
        THEN [st EXCEPT !.opcodes = Append(@, Opcode(opcode, st.mptr, 0)),
                        !.mptr = 0,
                        !.pc = @ + 1]
        ELSE LET repeats == _get_repeated_count(code, st.pc)
             IN  IF opcode = OP_LEFT
                 THEN [st EXCEPT !.mptr = @ - (repeats + 1), !.pc = @ + repeats + 1]
                 ELSE IF opcode = OP_RIGHT
                 THEN [st EXCEPT !.mptr = @ + (repeats + 1), !.pc = @ + repeats + 1]
                 ELSE [st EXCEPT !.opcodes = Append(@, Opcode(opcode, st.mptr, repeats + 1)),
                                 !.mptr = 0,
                                 !.pc = @ + repeats + 1]

RECURSIVE ParseLoop(_, _, _)
ParseLoop(code, size, st) ==
    IF st.err # ErrNone THEN st
    ELSE IF st.pc < size THEN ParseLoop(code, size, ParseIter(code, size, st))
    ELSE IF Len(st.loop_starts) # 0 THEN [st EXCEPT !.err = ErrOpen]
    ELSE st

\* the states the while loop of parse goes through, each at the top of an
\* iteration, in order
RECURSIVE ParseStates(_, _, _)
ParseStates(code, size, st) ==
    IF st.err # ErrNone \/ st.pc >= size THEN <<>>
    ELSE <<st>> \o ParseStates(code, size, ParseIter(code, size, st))

\* parse(source): [err, opcodes]; opcodes is what is returned when err is ErrNone
parse(src) ==
    LET code == cleanup(src)
        fin == ParseLoop(code, Len(code),
                         [pc |-> 0, mptr |-> 0, opcodes |-> <<>>,
                          loop_starts |-> <<>>, err |-> ErrNone])
    IN  [err |-> fin.err, opcodes |-> IF fin.err = ErrNone THEN fin.opcodes ELSE <<>>]

(* ------------------------------- the tape ------------------------------- *)

\* The tape is kept sparse: a function from the cells that are not 0 to their
\* values.  memory[p] of a bytearray takes p in -30000..29999, a negative p
\* counting from the end, and raises IndexError otherwise.
ZeroTape == [x \in {} |-> 0]

ValidIndex(p) == p >= -MEMORY_SIZE /\ p < MEMORY_SIZE

CellIdx(p) == IF p < 0 THEN p + MEMORY_SIZE ELSE p

Get(mem, p) == IF CellIdx(p) \in DOMAIN mem THEN mem[CellIdx(p)] ELSE 0

Put(mem, p, v) ==
    LET i == CellIdx(p)
    IN  IF v = 0
        THEN [x \in DOMAIN mem \ {i} |-> mem[x]]
        ELSE [x \in DOMAIN mem \cup {i} |-> IF x = i THEN v ELSE mem[x]]

Reverse(s) == [j \in 1..Len(s) |-> s[Len(s) + 1 - j]]

(* ------------------------------- evaluate ------------------------------- *)

\* for offset in op.arg: memory[idx] = (memory[idx] + memory[mptr]*mult) % 256
RECURSIVE CopyApply(_, _, _, _)
CopyApply(mem, mp, mults, j) ==
    IF j > Len(mults) THEN [fault |-> FALSE, memory |-> mem]
    ELSE LET idx == mp + mults[j][1]
         IN  IF ~ValidIndex(idx) THEN [fault |-> TRUE, memory |-> mem]
             ELSE CopyApply(Put(mem, idx, (Get(mem, idx) + Get(mem, mp) * mults[j][2]) % 256),
                            mp, mults, j + 1)

\* ScanRLoop seeking the next zero cell to the right
RECURSIVE ScanRLoopToZero(_, _)
ScanRLoopToZero(mem, mp) ==
    IF ~ValidIndex(mp) THEN [fault |-> TRUE, mptr |-> mp]
    ELSE IF Get(mem, mp) # 0 THEN ScanRLoopToZero(mem, mp + 1)
    ELSE [fault |-> FALSE, mptr |-> mp]

\* while mptr > 0 and memory[mptr] != 1: mptr -= 1
RECURSIVE ScanRLoop(_, _)
ScanRLoop(mem, mp) ==
    IF mp > 0
    THEN IF ~ValidIndex(mp) THEN [fault |-> TRUE, mptr |-> mp]
         ELSE IF Get(mem, mp) # 1 THEN ScanRLoop(mem, mp - 1)
         ELSE [fault |-> FALSE, mptr |-> mp]
    ELSE [fault |-> FALSE, mptr |-> mp]

\* while mptr < (size - 1) and memory[mptr] != 0: mptr += 1
RECURSIVE ScanLLoop(_, _, _)
ScanLLoop(mem, mp, size) ==
    IF mp < size - 1
    THEN IF ~ValidIndex(mp) THEN [fault |-> TRUE, mptr |-> mp]
         ELSE IF Get(mem, mp) # 0 THEN ScanLLoop(mem, mp + 1, size)
         ELSE [fault |-> FALSE, mptr |-> mp]
    ELSE [fault |-> FALSE, mptr |-> mp]

\* AddCell without the reduction modulo 256
AddCellNoWrap(v, n) == v + n

\* (memory[mptr] + op.arg) % 256
AddCell(v, n) == (v + n) % 256

\* (memory[mptr] - op.arg) % 256
SubCell(v, n) == (v - n) % 256

\* CloseJump landing past the paired Open
CloseJumpPast(arg) == arg

\* pc = op.arg - 1 of a taken Close; the loop then adds 1
CloseJump(arg) == arg - 1

\* pc = op.arg of a taken Open; the loop then adds 1
OpenJump(arg) == arg

\* ReadStores without the test for NUL
ReadStoresNul(ch) == Len(ch) > 0

\* if len(ch) > 0 and ord(ch) > 0, ch being the list of what was read
ReadStores(ch) == Len(ch) > 0 /\ ch[1] > 0

\* One iteration of the while loop of evaluate on
\* st = [pc, mptr, memory, stdin, out_buffer, fault]; ops is the IR program.
\* stdin is list(reversed(data_input)); read_buffer pops its last element.
ExecOp(ops, st) ==
    LET op == ops[st.pc + 1]
        size == Len(ops)
        mp == IF op.op = OP_MOVE THEN st.mptr + op.arg ELSE st.mptr + op.offset
        s1 == [st EXCEPT !.mptr = mp]
        raise == [s1 EXCEPT !.fault = TRUE]
    IN  CASE op.op = OP_MOVE -> [s1 EXCEPT !.pc = @ + 1]
          [] op.op = OP_ADD ->
                IF ~ValidIndex(mp) THEN raise
                ELSE [s1 EXCEPT !.memory = Put(@, mp, AddCell(Get(@, mp), op.arg)),
                                !.pc = @ + 1]
          [] op.op = OP_SUB ->
                IF ~ValidIndex(mp) THEN raise
                ELSE [s1 EXCEPT !.memory = Put(@, mp, SubCell(Get(@, mp), op.arg)),
                                !.pc = @ + 1]
          [] op.op = OP_OPEN_JMP ->
                IF ~ValidIndex(mp) THEN raise
                ELSE IF Get(st.memory, mp) = 0 THEN [s1 EXCEPT !.pc = OpenJump(op.arg) + 1]
                ELSE [s1 EXCEPT !.pc = @ + 1]
          [] op.op = OP_CLOSE_JMP ->
                IF ~ValidIndex(mp) THEN raise
                ELSE IF Get(st.memory, mp) # 0 THEN [s1 EXCEPT !.pc = CloseJump(op.arg) + 1]
                ELSE [s1 EXCEPT !.pc = @ + 1]
          [] op.op = OP_OUT ->
                IF ~ValidIndex(mp) THEN raise
                ELSE [s1 EXCEPT !.out_buffer = Append(@, Get(st.memory, mp)),
                                !.pc = @ + 1]
          [] op.op = OP_IN ->
                LET ch == IF Len(st.stdin) = 0 THEN <<>> ELSE <<st.stdin[Len(st.stdin)]>>
                    s2 == [s1 EXCEPT !.stdin = IF Len(@) = 0 THEN @
                                                ELSE SubSeq(@, 1, Len(@) - 1)]
                IN  IF ReadStores(ch)
                    THEN IF ~ValidIndex(mp) THEN [s2 EXCEPT !.fault = TRUE]
                         ELSE [s2 EXCEPT !.memory = Put(@, mp, ch[1]), !.pc = @ + 1]
                    ELSE [s2 EXCEPT !.pc = @ + 1]
          [] op.op = OP_CLEAR ->
                IF ~ValidIndex(mp) THEN raise
                ELSE [s1 EXCEPT !.memory = Put(@, mp, 0), !.pc = @ + 1]
          [] op.op = OP_COPY ->
                IF ~ValidIndex(mp) THEN raise
                ELSE IF Get(st.memory, mp) > 0
                THEN LET c == CopyApply(st.memory, mp, op.arg, 1)
                     IN  IF c.fault THEN [s1 EXCEPT !.memory = c.memory, !.fault = TRUE]
                         ELSE [s1 EXCEPT !.memory = Put(c.memory, mp, 0), !.pc = @ + 1]
                ELSE [s1 EXCEPT !.pc = @ + 1]
          [] op.op = OP_SCANR ->
                LET r == ScanRLoop(st.memory, mp)
                IN  [s1 EXCEPT !.mptr = r.mptr, !.fault = r.fault,
                               !.pc = IF r.fault THEN @ ELSE @ + 1]
          [] op.op = OP_SCANL ->
                LET r == ScanLLoop(st.memory, mp, size)
                IN  [s1 EXCEPT !.mptr = r.mptr, !.fault = r.fault,
                               !.pc = IF r.fault THEN @ ELSE @ + 1]

(* ------------------- primitive BF machines (JIT, reference) ------------------- *)

\* A run of a primitive machine is m = [pc, p, mem, inp, out, status, steps]:
\* pc indexes the sanitized source, inp is the input not yet read, out the
\* bytes written so far.

RECURSIVE BalancedFrom(_, _, _)
BalancedFrom(code, i, depth) ==
    IF i >= Len(code) THEN depth = 0
    ELSE IF At(code, i) = "[" THEN BalancedFrom(code, i + 1, depth + 1)
    ELSE IF At(code, i) = "]" THEN depth > 0 /\ BalancedFrom(code, i + 1, depth - 1)
    ELSE BalancedFrom(code, i + 1, depth)

Balanced(code) == BalancedFrom(code, 0, 0)

\* the "]" whose post_loop block the "[" at i pushes on left_stack
RECURSIVE MatchClose(_, _, _)
MatchClose(code, i, depth) ==
    IF At(code, i) = "[" THEN MatchClose(code, i + 1, depth + 1)
    ELSE IF At(code, i) = "]"
    THEN IF depth = 1 THEN i ELSE MatchClose(code, i + 1, depth - 1)
    ELSE MatchClose(code, i + 1, depth)

\* the "[" whose loop_body block the "]" at i pops from left_stack
RECURSIVE MatchOpen(_, _, _)
MatchOpen(code, i, depth) ==
    IF At(code, i) = "]" THEN MatchOpen(code, i - 1, depth + 1)
    ELSE IF At(code, i) = "["
    THEN IF depth = 1 THEN i ELSE MatchOpen(code, i - 1, depth - 1)
    ELSE MatchOpen(code, i - 1, depth)

\* inp is what is left to read on the input stream; buf is what the C
\* library has read from it and not yet handed out, and unbuffered says
\* whether the C library reads the stream byte by byte (PYTHONUNBUFFERED)
\* or fills its buffer with all there is (a pipe or a file, the default)
PrimStart(inp) ==
    [pc |-> 0, p |-> 0, mem |-> ZeroTape, inp |-> inp, out |-> <<>>,
     status |-> "run", steps |-> 0, buf |-> <<>>, unbuffered |-> FALSE]

InTape(p) == p >= 0 /\ p < MEMORY_SIZE

\* getchar() as declared by ir_getchar: the next byte of the stream, and the
\* low byte of EOF (-1) once the stream is exhausted
EOF_LOW_BYTE == 255

\* getchar() of the C library as declared by ir_getchar: an empty buffer is
\* filled from the stream first, then the next byte of the buffer is handed
\* out, or EOF when the stream had nothing left
getchar(m) ==
    LET filled == IF Len(m.buf) > 0 THEN m
                  ELSE IF m.unbuffered
                  THEN [m EXCEPT !.buf = Slice(m.inp, 0, 1),
                                 !.inp = Slice(@, 1, Len(@))]
                  ELSE [m EXCEPT !.buf = m.inp, !.inp = <<>>]
    IN  IF Len(filled.buf) = 0 THEN [ch |-> EOF_LOW_BYTE, m |-> filled]
        ELSE [ch |-> Head(filled.buf), m |-> [filled EXCEPT !.buf = Tail(@)]]

\* the code emitted by execute for the instruction at m.pc, run once
JitStep(code, m) ==
    LET c == At(code, m.pc)
        oob == [m EXCEPT !.status = "undefined"]
    IN  CASE c = ">" -> [m EXCEPT !.p = @ + 1, !.pc = @ + 1]
          [] c = "<" -> [m EXCEPT !.p = @ - 1, !.pc = @ + 1]
          [] c = "+" -> IF ~InTape(m.p) THEN oob
                        ELSE [m EXCEPT !.mem = Put(@, m.p, (Get(@, m.p) + 1) % 256),
                                       !.pc = @ + 1]
          [] c = "-" -> IF ~InTape(m.p) THEN oob
                        ELSE [m EXCEPT !.mem = Put(@, m.p, (Get(@, m.p) - 1) % 256),
                                       !.pc = @ + 1]
          [] c = "." -> IF ~InTape(m.p) THEN oob
                        ELSE [m EXCEPT !.out = Append(@, Get(m.mem, m.p)), !.pc = @ + 1]
          [] c = "," -> LET g == getchar(m)
                            ch == g.ch
                            m1 == g.m
                        IN  IF ~InTape(m.p) THEN [m1 EXCEPT !.status = "undefined"]
                            ELSE [m1 EXCEPT !.mem = Put(@, m.p, ch), !.pc = @ + 1]
          [] c = "[" -> IF ~InTape(m.p) THEN oob
                        ELSE IF Get(m.mem, m.p) = 0
                        THEN [m EXCEPT !.pc = MatchClose(code, m.pc, 0) + 1]
                        ELSE [m EXCEPT !.pc = @ + 1]
          [] c = "]" -> IF ~InTape(m.p) THEN oob
                        ELSE IF Get(m.mem, m.p) # 0
                        THEN [m EXCEPT !.pc = MatchOpen(code, m.pc, 0) + 1]
                        ELSE [m EXCEPT !.pc = @ + 1]

\* the eight primitive instructions run one at a time, an input byte being
\* stored only when one was read and it is not NUL
RefStep(code, m) ==
    LET c == At(code, m.pc)
        oob == [m EXCEPT !.status = "out_of_range"]
    IN  CASE c = ">" -> [m EXCEPT !.p = @ + 1, !.pc = @ + 1]
          [] c = "<" -> [m EXCEPT !.p = @ - 1, !.pc = @ + 1]
          [] c = "+" -> IF ~InTape(m.p) THEN oob
                        ELSE [m EXCEPT !.mem = Put(@, m.p, (Get(@, m.p) + 1) % 256),
                                       !.pc = @ + 1]
          [] c = "-" -> IF ~InTape(m.p) THEN oob
                        ELSE [m EXCEPT !.mem = Put(@, m.p, (Get(@, m.p) - 1) % 256),
                                       !.pc = @ + 1]
          [] c = "." -> IF ~InTape(m.p) THEN oob
                        ELSE [m EXCEPT !.out = Append(@, Get(m.mem, m.p)), !.pc = @ + 1]
          [] c = "," -> IF Len(m.inp) = 0 THEN [m EXCEPT !.pc = @ + 1]
                        ELSE IF Head(m.inp) = 0 THEN [m EXCEPT !.inp = Tail(@), !.pc = @ + 1]
                        ELSE IF ~InTape(m.p) THEN [m EXCEPT !.inp = Tail(@),
                                                            !.status = "out_of_range"]
                        ELSE [m EXCEPT !.mem = Put(@, m.p, Head(m.inp)),
                                       !.inp = Tail(@), !.pc = @ + 1]
          [] c = "[" -> IF ~InTape(m.p) THEN oob
                        ELSE IF Get(m.mem, m.p) = 0
                        THEN [m EXCEPT !.pc = MatchClose(code, m.pc, 0) + 1]
                        ELSE [m EXCEPT !.pc = @ + 1]
          [] c = "]" -> IF ~InTape(m.p) THEN oob
                        ELSE IF Get(m.mem, m.p) # 0
                        THEN [m EXCEPT !.pc = MatchOpen(code, m.pc, 0) + 1]
                        ELSE [m EXCEPT !.pc = @ + 1]

\* the compiled function run to its ret, within the step budget
RECURSIVE JitRun(_, _, _)
JitRun(code, m, bud) ==
    IF m.status # "run" THEN m
    ELSE IF m.pc >= Len(code) THEN [m EXCEPT !.status = "returned"]
    ELSE IF m.steps >= bud THEN [m EXCEPT !.status = "budget"]
    ELSE JitRun(code, [JitStep(code, m) EXCEPT !.steps = @ + 1], bud)

RECURSIVE RefRun(_, _, _)
RefRun(code, m, bud) ==
    IF m.status # "run" THEN m
    ELSE IF m.pc >= Len(code) THEN [m EXCEPT !.status = "returned"]
    ELSE IF m.steps >= bud THEN [m EXCEPT !.status = "budget"]
    ELSE RefRun(code, [RefStep(code, m) EXCEPT !.steps = @ + 1], bud)

\* the byte that ends a line of standard input
NEWLINE == 10

\* input() after cfunc() has returned: Python reads one more line from the
\* stream, up to and including its newline, or what is left of the stream
\* when it holds no newline; at the end of the stream input() raises
\* EOFError.  What the C library holds in its buffer is not on the stream.
input(m) ==
    LET nls == {j \in 1..Len(m.inp) : m.inp[j] = NEWLINE}
    IN  IF Len(m.inp) = 0 THEN [m EXCEPT !.status = "EOFError"]
        ELSE IF nls = {} THEN [m EXCEPT !.inp = <<>>]
        ELSE LET nl == CHOOSE j \in nls : \A k \in nls : j <= k
             IN  [m EXCEPT !.inp = SubSeq(@, nl + 1, Len(@))]

\* execute(instructions): left_stack.pop() fails on an unmatched "]", and an
\* unmatched "[" leaves a block without a terminator; the compiled function
\* is called and, once it has returned, input() is
execute(code, inp, bud, unbuffered) ==
    LET start == [PrimStart(inp) EXCEPT !.unbuffered = unbuffered]
    IN  IF ~Balanced(code) THEN [start EXCEPT !.status = "compile_error"]
        ELSE LET m == JitRun(code, start, bud)
             IN  IF m.status = "returned" THEN input(m) ELSE m

reference(code, inp, bud) ==
    IF ~Balanced(code) THEN [PrimStart(inp) EXCEPT !.status = "unbalanced"]
    ELSE RefRun(code, PrimStart(inp), bud)

(* ------------------------------- bounds ------------------------------- *)

\* sources are concatenations of at most MaxFrags fragments
MaxFrags == 4
\* sources handed to a recognizer alone are concatenations of at most
\* MaxRecFrags fragments
MaxRecFrags == 3
\* programs that are run are concatenations of at most MaxRunFrags fragments
MaxRunFrags == 3
\* data_input holds at most MaxInput bytes
MaxInput == 2
\* iterations of the loop of evaluate, and primitive steps, per run
MaxSteps == 12
\* iterations of the loop of evaluate per scenario run
ScenarioSteps == 1000
MaxCopySteps == 3000

\* the fragments sources are built from: every instruction character, a
\* character that is no instruction, and the loop shapes the recognizers look for
Frags ==
    { <<"+">>, <<"-">>, <<">">>, <<"<">>, <<".">>, <<",">>, <<"[">>, <<"]">>,
      <<"x">>, <<"[", "-", "]">>, <<"[", ">", "]">>, <<"[", "<", "]">>,
      <<"[", "-", ">", "+", "<", "]">>,
      <<"[", "-", ">", ">", "+", "<", "<">>,
      <<"[", "-", "+", ">", "+", "<", "]">> }

RunFrags ==
    { <<"+">>, <<"-">>, <<">">>, <<"<">>, <<".">>, <<",">>, <<"[">>, <<"]">>,
      <<"[", "-", "]">>, <<"[", ">", "]">>, <<"[", "<", "]">>,
      <<"[", "-", ">", "+", "<", "]">> }

\* the concatenation of a sequence of fragments
RECURSIVE Flatten(_)
Flatten(fs) == IF Len(fs) = 0 THEN <<>> ELSE Head(fs) \o Flatten(Tail(fs))

InputBytes == {0, 2, NEWLINE}
Inputs == UNION {[1..n -> InputBytes] : n \in 0..MaxInput}

(* ------------------------------- actions ------------------------------- *)

\* main has not run
NoResult == [status |-> "none", listing |-> <<>>, written |-> <<>>]

Idle ==
    /\ phase = "init"
    /\ opcodes = <<>>
    /\ error = ErrNone
    /\ recog = NoMatch @@ [index |-> 0]
    /\ data_input = <<>>
    /\ pc = 0
    /\ mptr = 0
    /\ memory = ZeroTape
    /\ stdin = <<>>
    /\ out_buffer = <<>>
    /\ outcome = "none"
    /\ reads = 0
    /\ steps = 0
    /\ ref = PrimStart(<<>>)
    /\ jit = PrimStart(<<>>)
    /\ main_result = NoResult

Init ==
    /\ \E k \in 0..MaxRunFrags : \E fs \in [1..k -> RunFrags] : source = Flatten(fs)
    /\ budget = MaxSteps
    /\ Idle

InitParse ==
    /\ \E k \in 0..MaxFrags : \E fs \in [1..k -> Frags] : source = Flatten(fs)
    /\ budget = 0
    /\ Idle

\* opcodes = parse(source)
Parse ==
    /\ phase = "init"
    /\ LET r == parse(source)
       IN  /\ phase' = IF r.err = ErrNone THEN "parsed" ELSE "parse_error"
           /\ opcodes' = r.opcodes
           /\ error' = r.err
    /\ UNCHANGED <<main_result, source, recog, data_input, pc, mptr, memory, stdin, out_buffer,
                   outcome, reads, steps, budget, ref, jit>>

\* _is_copyloop(code, size, index, mptr) at a "[" of the sanitized source
Recognize(index) ==
    /\ phase = "init"
    /\ index < Len(cleanup(source))
    /\ At(cleanup(source), index) = "["
    /\ recog' = _is_copyloop(cleanup(source), Len(cleanup(source)), index, 0)
                   @@ [index |-> index]
    /\ phase' = "recognized"
    /\ UNCHANGED <<main_result, source, opcodes, error, data_input, pc, mptr, memory, stdin,
                   out_buffer, outcome, reads, steps, budget, ref, jit>>

\* the start of evaluate(opcodes, data_input), up to its while loop
EvalBegin(inp) ==
    /\ phase = "parsed"
    /\ phase' = "eval"
    /\ data_input' = inp
    /\ stdin' = Reverse(inp)
    /\ memory' = ZeroTape
    /\ pc' = 0
    /\ mptr' = 0
    /\ out_buffer' = <<>>
    /\ outcome' = "running"
    /\ reads' = 0
    /\ steps' = 0
    /\ UNCHANGED <<main_result, source, opcodes, error, recog, budget, ref, jit>>

\* one iteration of the while loop of evaluate
EvalStep ==
    /\ phase = "eval"
    /\ outcome = "running"
    /\ pc < Len(opcodes)
    /\ steps < budget
    /\ LET st == ExecOp(opcodes, [pc |-> pc, mptr |-> mptr, memory |-> memory,
                                  stdin |-> stdin, out_buffer |-> out_buffer,
                                  fault |-> FALSE])
       IN  /\ pc' = st.pc
           /\ mptr' = st.mptr
           /\ memory' = st.memory
           /\ stdin' = st.stdin
           /\ out_buffer' = st.out_buffer
           /\ outcome' = IF st.fault THEN "IndexError" ELSE "running"
    /\ reads' = IF opcodes[pc + 1].op = OP_IN THEN reads + 1 ELSE reads
    /\ steps' = steps + 1
    /\ UNCHANGED <<main_result, source, phase, opcodes, error, recog, data_input, budget, ref, jit>>

\* the loop of evaluate ends and the buffer is returned
EvalReturn ==
    /\ phase = "eval"
    /\ outcome = "running"
    /\ pc >= Len(opcodes)
    /\ outcome' = "returned"
    /\ UNCHANGED <<main_result, source, phase, opcodes, error, recog, data_input, pc, mptr, memory,
                   stdin, out_buffer, reads, steps, budget, ref, jit>>

EvalOver == outcome \in {"returned", "IndexError"} \/ (outcome = "running" /\ steps >= budget)

\* the same program and input on the reference interpreter
RunReference ==
    /\ phase = "eval"
    /\ EvalOver
    /\ ref' = reference(cleanup(source), data_input, budget)
    /\ phase' = "referenced"
    /\ UNCHANGED <<main_result, source, opcodes, error, recog, data_input, pc, mptr, memory, stdin,
                   out_buffer, outcome, reads, steps, budget, jit>>

\* the same program and input through jit.main: execute(cleanup(source)),
\* which ends with EOFError when input() finds the stream at its end
RunJit ==
    /\ phase = "referenced"
    /\ \E unbuffered \in BOOLEAN :
          jit' = execute(cleanup(source), data_input, budget, unbuffered)
    /\ phase' = "done"
    /\ UNCHANGED <<main_result, source, opcodes, error, recog, data_input, pc, mptr, memory, stdin,
                   out_buffer, outcome, reads, steps, budget, ref>>

Next ==
    \/ Parse
    \/ \E inp \in Inputs : EvalBegin(inp)
    \/ EvalStep
    \/ EvalReturn
    \/ RunReference
    \/ RunJit

Spec == Init /\ [][Next]_vars

NextParse == Parse

SpecParse == InitParse /\ [][NextParse]_vars

InitRecognize ==
    /\ \E k \in 0..MaxRecFrags : \E fs \in [1..k -> Frags] : source = Flatten(fs)
    /\ budget = 0
    /\ Idle

NextRecognize == \E index \in 0..(Len(source) - 1) : Recognize(index)

SpecRecognize == InitRecognize /\ [][NextRecognize]_vars

(* --------------------------------- main --------------------------------- *)

\* the names of the opcodes; ScanR and ScanL have none
opcode_name_map ==
    (OP_ADD :> "add") @@ (OP_SUB :> "sub") @@ (OP_RIGHT :> "right")
    @@ (OP_LEFT :> "left") @@ (OP_OUT :> "out") @@ (OP_IN :> "in")
    @@ (OP_OPEN_JMP :> "openjmp") @@ (OP_CLOSE_JMP :> "closejmp")
    @@ (OP_MOVE :> "move") @@ (OP_CLEAR :> "clear") @@ (OP_COPY :> "copy")

\* opcode_name_map[opcode_num] raises KeyError when the opcode has no name
HasName(opcode_num) == opcode_num \in DOMAIN opcode_name_map

opcode_to_string(opcode_num) == opcode_name_map[opcode_num]

\* Opcode.__str__: the name, the offset and the arg of one line of the listing
OpcodeStr(op) == <<opcode_to_string(op.op), op.offset, op.arg>>

\* for op in opcodes: print(op) -- the lines printed, up to the first opcode
\* that has no name
Listing(ops) ==
    LET bad == {j \in 1..Len(ops) : ~HasName(ops[j].op)}
        stop == IF bad = {} THEN Len(ops) + 1
                ELSE CHOOSE j \in bad : \A k \in bad : j <= k
    IN  [raised |-> bad # {},
         lines |-> [j \in 1..(stop - 1) |-> OpcodeStr(ops[j])]]

\* sys.stdout.write(chr(v)) on a UTF-8 standard output: the bytes of chr(v)
Utf8(v) == IF v < 128 THEN <<v>> ELSE <<192 + (v \div 64), 128 + (v % 64)>>

RECURSIVE Utf8All(_)
Utf8All(chars) ==
    IF Len(chars) = 0 THEN <<>> ELSE Utf8(Head(chars)) \o Utf8All(Tail(chars))

\* the while loop of evaluate run to its end, within the step budget
RECURSIVE EvalRun(_, _, _, _)
EvalRun(ops, st, n, bud) ==
    IF st.fault THEN [outcome |-> "IndexError", st |-> st]
    ELSE IF st.pc >= Len(ops) THEN [outcome |-> "returned", st |-> st]
    ELSE IF n >= bud THEN [outcome |-> "budget", st |-> st]
    ELSE EvalRun(ops, ExecOp(ops, st), n + 1, bud)

\* main() with argc command-line words, the file holding src and inp on
\* standard input: parse, the listing of the opcodes, then
\* evaluate(opcodes, buffer_output=False), which reads standard input byte by
\* byte and writes each character as it is produced
main(argc, src, inp, bud) ==
    IF argc # 2 THEN [NoResult EXCEPT !.status = "usage"]
    ELSE LET r == parse(src)
             l == Listing(r.opcodes)
             e == EvalRun(r.opcodes,
                          [pc |-> 0, mptr |-> 0, memory |-> ZeroTape,
                           stdin |-> Reverse(inp), out_buffer |-> <<>>,
                           fault |-> FALSE], 0, bud)
         IN  IF r.err # ErrNone THEN [NoResult EXCEPT !.status = "RuntimeError"]
             ELSE IF l.raised
             THEN [status |-> "KeyError", listing |-> l.lines, written |-> <<>>]
             ELSE [status |-> e.outcome, listing |-> l.lines,
                   written |-> Utf8All(e.st.out_buffer)]

Main(argc, inp) ==
    /\ phase = "init"
    /\ main_result' = main(argc, source, inp, budget)
    /\ phase' = "main"
    /\ UNCHANGED <<source, opcodes, error, recog, data_input, pc, mptr, memory,
                   stdin, out_buffer, outcome, reads, steps, budget, ref, jit>>

InitMain ==
    /\ \E k \in 0..MaxRunFrags : \E fs \in [1..k -> RunFrags] : source = Flatten(fs)
    /\ budget = MaxSteps
    /\ Idle

NextMain == \E argc \in {1, 2} : \E inp \in Inputs : Main(argc, inp)

SpecMain == InitMain /\ [][NextMain]_vars

(* ------------------------- a Copy and its loop ------------------------- *)

\* sources that start with a loop _is_copyloop is offered
CopySources ==
    { <<"[", "-", ">", "+", "<", "]", ".">>,
      <<"[", "-", ">", "+", "+", "<", "]", ".">>,
      <<"[", "-", ">", ">", "+", "+", "+", "<", "<", "]", ".">>,
      <<"[", "-", ">", "+", ">", "+", "+", "<", "<", "]", ".">>,
      <<"[", "-", "+", ">", "+", "<", "]", ".">>,
      <<"[", "-", ">", ">", "+", "<", "<">>,
      <<"[", "-", ">", "+", "<", "]">> }

\* values of the cell the loop runs on, and of the cells next to it
CopyAnchors == {0, 1, 3, 255}
CopyOlds == {0, 254}
CopyPointers == {0, 7}

\* the characters of the source the recognizer reports as consumed
LoopText == Slice(cleanup(source), recog.index, recog.index + recog.n)

\* the tape and pointer evaluate holds when it reaches the "[" of the loop
InitCopy ==
    /\ source \in CopySources
    /\ \E a \in CopyAnchors : \E t1 \in CopyOlds : \E t2 \in CopyOlds :
       \E p \in CopyPointers :
          /\ mptr = p
          /\ memory = Put(Put(Put(Put(ZeroTape, p, a), p + 1, t1), p + 2, t2), p + 3, 9)
          /\ ref = [PrimStart(<<>>) EXCEPT !.mem = memory, !.p = p]
    /\ phase = "init"
    /\ opcodes = <<>>
    /\ error = ErrNone
    /\ recog = NoMatch @@ [index |-> 0]
    /\ data_input = <<>>
    /\ pc = 0
    /\ stdin = <<>>
    /\ out_buffer = <<>>
    /\ outcome = "none"
    /\ reads = 0
    /\ steps = 0
    /\ budget = MaxCopySteps
    /\ jit = PrimStart(<<>>)
    /\ main_result = NoResult

\* one primitive instruction of the loop text, or its end
RefLoopStep ==
    /\ phase = "recognized"
    /\ recog.n > 0
    /\ Balanced(LoopText)
    /\ ref.status = "run"
    /\ ref.steps < budget
    /\ ref' = IF ref.pc >= Len(LoopText) THEN [ref EXCEPT !.status = "returned"]
              ELSE [RefStep(LoopText, ref) EXCEPT !.steps = @ + 1]
    /\ UNCHANGED <<main_result, source, phase, opcodes, error, recog, data_input, pc, mptr,
                   memory, stdin, out_buffer, outcome, reads, steps, budget, jit>>

\* the emitted Copy run by evaluate on the tape the loop started on
ExecCopy ==
    /\ phase = "recognized"
    /\ recog.n > 0
    /\ ~Balanced(LoopText) \/ ref.status # "run" \/ ref.steps >= budget
    /\ LET r == ExecOp(recog.ops, [pc |-> 0, mptr |-> mptr, memory |-> memory,
                                   stdin |-> <<>>, out_buffer |-> <<>>,
                                   fault |-> FALSE])
       IN  /\ memory' = r.memory
           /\ mptr' = r.mptr
           /\ pc' = r.pc
           /\ outcome' = IF r.fault THEN "IndexError" ELSE "running"
    /\ opcodes' = recog.ops
    /\ phase' = "copied"
    /\ UNCHANGED <<main_result, source, error, recog, data_input, stdin, out_buffer, reads,
                   steps, budget, ref, jit>>

NextCopy == Recognize(0) \/ RefLoopStep \/ ExecCopy

SpecCopy == InitCopy /\ [][NextCopy]_vars

(* ------------------------------ scenarios ------------------------------ *)

\* S1, the classical Hello World
HelloWorld == <<
    "+", "+", "+", "+", "+", "+", "+", "+", "[", ">", "+", "+",
    "+", "+", "[", ">", "+", "+", ">", "+", "+", "+", ">", "+",
    "+", "+", ">", "+", "<", "<", "<", "<", "-", "]", ">", "+",
    ">", "+", ">", "-", ">", ">", "+", "[", "<", "]", "<", "-",
    "]", ">", ">", ".", ">", "-", "-", "-", ".", "+", "+", "+",
    "+", "+", "+", "+", ".", ".", "+", "+", "+", ".", ">", ">",
    ".", "<", "-", ".", "<", ".", "+", "+", "+", ".", "-", "-",
    "-", "-", "-", "-", ".", "-", "-", "-", "-", "-", "-", "-",
    "-", ".", ">", ">", "+", ".", ">", "+", "+", "." >>

\* S2 +++++[-]+.
ClearScenario == <<"+", "+", "+", "+", "+", "[", "-", "]", "+", ".">>

\* S3 +>+>+>+>[>]+.
ScanRightScenario ==
    <<"+", ">", "+", ">", "+", ">", "+", ">", "[", ">", "]", "+", ".">>

\* S4 +++[->++>+++<<]>.>.
CopyScenario ==
    <<"+", "+", "+", "[", "-", ">", "+", "+", ">", "+", "+", "+", "<", "<", "]",
      ">", ".", ">", ".">>

\* S5 ,.
EofScenario == <<",", ".">>

\* S6 ++[+
UnmatchedScenario == <<"+", "+", "[", "+">>

\* 256 "+" from zero, then "."
WrapAddScenario == [i \in 1..256 |-> "+"] \o <<".">>

\* one "-" from zero, then "."
WrapSubScenario == <<"-", ".">>

\* "+", then 257 "-", then "."
WrapLongSubScenario == <<"+", ".">> \o [i \in 1..257 |-> "-"] \o <<".">>

Scenarios ==
    {HelloWorld, ClearScenario, ScanRightScenario, CopyScenario, EofScenario,
     UnmatchedScenario, WrapAddScenario, WrapSubScenario, WrapLongSubScenario}

InitScenario == source \in Scenarios /\ budget = ScenarioSteps /\ Idle

NextScenario ==
    \/ Parse
    \/ \E inp \in Inputs : EvalBegin(inp)
    \/ EvalStep
    \/ EvalReturn

SpecScenario == InitScenario /\ [][NextScenario]_vars

(* ----------------------------- properties ----------------------------- *)

IsOp(i, kind) == opcodes[i + 1].op = kind

IRIndices == 0..(Len(opcodes) - 1)

\* the run of evaluate neither raised nor was cut off by the step budget
EvalReturned == phase \in {"eval", "referenced", "done"} /\ outcome = "returned"

\* C1: for every bracket-balanced program that ends within the step budget
\* with its pointer inside the tape, parse followed by evaluate returns
\* exactly the bytes the reference interpreter writes on the same input.
C1_OptimizerEquivalence ==
    (phase \in {"referenced", "done"} /\ ref.status = "returned" /\ outcome # "running")
        => (outcome = "returned" /\ out_buffer = ref.out)

\* the function the JIT emitted ran to its ret, whatever the input() that
\* follows it in execute did
JitFunctionReturned == jit.status \in {"returned", "EOFError"}

\* C2: for every program that ends within the step budget with its pointer
\* inside the tape, and every input stream, the output of parse + evaluate and
\* the output of the function the JIT emits are byte-identical.
C2_BackendEquivalence ==
    (phase = "done" /\ JitFunctionReturned /\ outcome # "running")
        => (outcome = "returned" /\ out_buffer = jit.out)

\* C3: in every IR program parse returns, every Open at i has arg j > i with
\* opcodes[j] a Close of arg i, every Close is the arg of exactly one Open, and
\* two Open/Close pairs are disjoint or strictly nested.
C3_BracePairing ==
    phase = "parsed" =>
        /\ \A i \in IRIndices : IsOp(i, OP_OPEN_JMP) =>
              LET j == opcodes[i + 1].arg
              IN  j > i /\ j \in IRIndices /\ IsOp(j, OP_CLOSE_JMP)
                  /\ opcodes[j + 1].arg = i
        /\ \A j \in IRIndices : IsOp(j, OP_CLOSE_JMP) =>
              Cardinality({i \in IRIndices :
                             IsOp(i, OP_OPEN_JMP) /\ opcodes[i + 1].arg = j}) = 1
        /\ \A i1, i2 \in IRIndices :
              (IsOp(i1, OP_OPEN_JMP) /\ IsOp(i2, OP_OPEN_JMP) /\ i1 < i2) =>
                  \/ opcodes[i1 + 1].arg < i2
                  \/ opcodes[i2 + 1].arg < opcodes[i1 + 1].arg

\* a returned IR where a Move precedes an ordinary loop that holds a
\* recognized loop
C3_Witness ==
    /\ phase = "parsed"
    /\ \E m, i, r \in IRIndices :
          /\ IsOp(m, OP_MOVE)
          /\ IsOp(i, OP_OPEN_JMP)
          /\ opcodes[r + 1].op \in {OP_CLEAR, OP_COPY, OP_SCANR, OP_SCANL}
          /\ m < i /\ i < r /\ r < opcodes[i + 1].arg

\* C4: parse returns an IR program only when the sanitized source is
\* bracket-balanced; every unbalanced source raises the unmatched error.
C4_UnbalancedRejected ==
    phase = "parsed" => Balanced(cleanup(source))

\* the cell a primitive [>] leaves the pointer on: the nearest cell at or to
\* the right of p that holds 0
RECURSIVE ZeroAtOrRight(_, _)
ZeroAtOrRight(mem, p) ==
    IF Get(mem, p) = 0 \/ p >= MEMORY_SIZE - 1 THEN p ELSE ZeroAtOrRight(mem, p + 1)

\* the nearest cell at or to the left of p that holds 0
RECURSIVE ZeroAtOrLeft(_, _)
ZeroAtOrLeft(mem, p) ==
    IF Get(mem, p) = 0 \/ p <= 0 THEN p ELSE ZeroAtOrLeft(mem, p - 1)

ExecutesOp(kind) ==
    /\ phase = "eval"
    /\ outcome = "running"
    /\ pc < Len(opcodes)
    /\ IsOp(pc, kind)
    /\ steps' = steps + 1

\* C5: executing ScanR adds its offset to the pointer and leaves it on the
\* nearest cell at or to the right that holds 0, ScanL the same to the left;
\* no cell is modified.  (Stated for runs that keep the pointer on a zero cell
\* inside the tape, as the primitive loops [>] and [<] do.)
C5_ScanSemantics ==
    [][ /\ ExecutesOp(OP_SCANR) =>
              /\ memory' = memory
              /\ mptr' = ZeroAtOrRight(memory, mptr + opcodes[pc + 1].offset)
        /\ (ExecutesOp(OP_SCANL)
              /\ Get(memory, ZeroAtOrLeft(memory, mptr + opcodes[pc + 1].offset)) = 0) =>
              /\ memory' = memory
              /\ mptr' = ZeroAtOrLeft(memory, mptr + opcodes[pc + 1].offset)
      ]_vars

\* Hello World!\n
HelloOutput == <<72, 101, 108, 108, 111, 32, 87, 111, 114, 108, 100, 33, 10>>

\* the run of evaluate ends: it raises nothing and is not cut off by the budget
EvalTerminates ==
    /\ outcome # "IndexError"
    /\ (phase = "eval" /\ outcome = "running" /\ pc < Len(opcodes)) => steps < budget

\* C6: scenario S1, evaluate on parse of Hello World with no input ends and
\* returns the 13 bytes of "Hello World!\n".
C6_HelloWorld ==
    (source = HelloWorld /\ data_input = <<>>) =>
        /\ phase # "parse_error"
        /\ EvalTerminates
        /\ EvalReturned => out_buffer = HelloOutput

\* what one execution of In does, the k-th In reading the k-th input element
C7_InStep ==
    ExecutesOp(OP_IN) =>
        LET k == reads + 1
            p == mptr + opcodes[pc + 1].offset
            stores == k <= Len(data_input) /\ data_input[k] # 0
        IN  /\ memory' = IF stores THEN Put(memory, p, data_input[k]) ELSE memory
            /\ stores => Get(memory', p) = data_input[k]
            /\ stdin' = Reverse(SubSeq(data_input, k + 1, Len(data_input)))
            /\ mptr' = p
            /\ out_buffer' = out_buffer
            /\ pc' = pc + 1
            /\ outcome' = "running"

\* C7: the k-th executed In consumes the k-th element of data_input; it stores
\* that byte into T[p] iff an element was left and it is not 0, and otherwise
\* leaves the tape unchanged; execution continues; ",." on empty input
\* returns the single byte 0.
C7_InputSemantics ==
    /\ [][C7_InStep]_vars
    /\ []((cleanup(source) = EofScenario /\ data_input = <<>> /\ EvalReturned)
             => out_buffer = <<0>>)

\* the second In has run on an input whose first byte is NUL and whose second
\* is not: the cell holds the second byte
C7_Witness ==
    /\ phase = "eval"
    /\ reads = 2
    /\ Len(data_input) = 2
    /\ data_input[1] = 0
    /\ data_input[2] # 0
    /\ stdin = <<>>
    /\ Get(memory, mptr) = data_input[2]

\* the text "[" "-" (">"+ "+"*)+ "<"+ "]" with as many "<" as ">"
IsCopyShape(text) ==
    /\ Len(text) >= 6
    /\ text[1] = "[" /\ text[2] = "-" /\ text[Len(text)] = "]"
    /\ LET body == SubSeq(text, 3, Len(text) - 1)
           lefts == {j \in 1..Len(body) : body[j] = "<"}
       IN  /\ lefts # {}
           /\ LET first == CHOOSE j \in lefts : \A l \in lefts : j <= l
              IN  /\ first > 1
                  /\ body[1] = ">"
                  /\ \A j \in 1..(first - 1) : body[j] \in {">", "+"}
                  /\ \A j \in first..Len(body) : body[j] = "<"
                  /\ Len(body) - first + 1
                       = Cardinality({j \in 1..(first - 1) : body[j] = ">"})

\* C8: _is_copyloop reports a match only on the copy-loop shape, the consumed
\* count ends exactly on a "]" that is in the source, every key of the
\* multiplier mapping is >= 1 and the multipliers are nonzero.
C8_CopyShape ==
    (phase = "recognized" /\ recog.n > 0) =>
        LET code == cleanup(source)
            last == recog.index + recog.n - 1
            mults == recog.ops[1].arg
        IN  /\ last < Len(code)
            /\ At(code, last) = "]"
            /\ IsCopyShape(Slice(code, recog.index, last + 1))
            /\ Len(mults) >= 1
            /\ \A j \in 1..Len(mults) : mults[j][1] >= 1 /\ mults[j][2] # 0

\* C9: no Add, Sub or Move of a returned IR program has arg 0, and "><["
\* emits no Move.
C9_NoZeroArg ==
    phase = "parsed" =>
        /\ \A i \in IRIndices :
              /\ opcodes[i + 1].op \in {OP_ADD, OP_SUB} => opcodes[i + 1].arg >= 1
              /\ IsOp(i, OP_MOVE) => opcodes[i + 1].arg # 0
        /\ Slice(cleanup(source), 0, 3) = <<">", "<", "[">> => ~IsOp(0, OP_MOVE)

\* a returned IR that holds a Move and an Add or a Sub
C9_Witness ==
    /\ phase = "parsed"
    /\ \E m, a \in IRIndices :
          IsOp(m, OP_MOVE) /\ opcodes[a + 1].op \in {OP_ADD, OP_SUB}

\* C10: scenario S3, evaluate on parse of +>+>+>+>[>]+. with no input ends and
\* returns the single byte 2.
C10_ScanRightScenario ==
    (source = ScanRightScenario /\ data_input = <<>>) =>
        /\ phase # "parse_error"
        /\ EvalTerminates
        /\ EvalReturned => out_buffer = <<2>>

C10_Witness ==
    /\ source = ScanRightScenario
    /\ data_input = <<>>
    /\ EvalReturned
    /\ out_buffer = <<2>>

\* the cells of the tape other than p hold what they held
OtherCellsKept(p) ==
    \A i \in (DOMAIN memory \cup DOMAIN memory') \ {CellIdx(p)} :
        Get(memory', i) = Get(memory, i)

\* C11: every tape cell holds a value in 0..255; Add with count n >= 1 on a
\* cell holding v leaves (v + n) mod 256 and Sub leaves (v - n) mod 256, also
\* for n >= 256; 256 "+" from zero leave 0 and one "-" from zero leaves 255.
C11_CellWrap ==
    /\ [](\A i \in DOMAIN memory : memory[i] \in 0..255)
    /\ [][ /\ ExecutesOp(OP_ADD) =>
                 LET p == mptr + opcodes[pc + 1].offset
                     n == opcodes[pc + 1].arg
                     v == Get(memory, p)
                 IN  /\ n >= 1
                     /\ Get(memory', p) \in 0..255
                     /\ \E q \in 0..((v + n) \div 256) : Get(memory', p) + 256 * q = v + n
                     /\ OtherCellsKept(p)
           /\ ExecutesOp(OP_SUB) =>
                 LET p == mptr + opcodes[pc + 1].offset
                     n == opcodes[pc + 1].arg
                     v == Get(memory, p)
                 IN  /\ n >= 1
                     /\ Get(memory', p) \in 0..255
                     /\ \E q \in 0..((n \div 256) + 1) : Get(memory', p) - 256 * q = v - n
                     /\ OtherCellsKept(p)
         ]_vars
    /\ []((source = WrapAddScenario /\ EvalReturned) => out_buffer = <<0>>)
    /\ []((source = WrapSubScenario /\ EvalReturned) => out_buffer = <<255>>)
    /\ []((source = WrapLongSubScenario /\ EvalReturned) => out_buffer = <<1, 0>>)

\* the Add of 256 has run on the zero cell and left it at 0
C11_Witness ==
    /\ source = WrapAddScenario
    /\ phase = "eval"
    /\ opcodes[1].op = OP_ADD
    /\ opcodes[1].arg = 256
    /\ pc = 1
    /\ Get(memory, 0) = 0

\* C12: for every loop _is_copyloop accepts and every tape, the emitted Copy
\* ends with the tape and data pointer the accepted loop text ends with under
\* the primitive semantics: each target at offset off holds
\* (old + anchor * mult) mod 256, the anchor holds 0, every other cell is
\* unchanged, and nothing changes when the anchor is 0.
C12_CopyMeaning ==
    [][ (phase = "recognized" /\ phase' = "copied") =>
          LET a == Get(memory, mptr)
              mults == recog.ops[1].arg
              targets == {CellIdx(mptr + mults[j][1]) : j \in 1..Len(mults)}
          IN  /\ Balanced(LoopText)
              /\ ref.status = "returned"
              /\ memory' = ref.mem
              /\ mptr' = ref.p
              /\ a = 0 => (memory' = memory /\ mptr' = mptr)
              /\ a # 0 =>
                    /\ Get(memory', mptr) = 0
                    /\ \A j \in 1..Len(mults) :
                          Get(memory', mptr + mults[j][1])
                            = (Get(memory, mptr + mults[j][1]) + a * mults[j][2]) % 256
                    /\ \A i \in (DOMAIN memory \cup DOMAIN memory')
                                    \ (targets \cup {CellIdx(mptr)}) :
                          Get(memory', i) = Get(memory, i)
      ]_vars

\* the Open and Close instructions of the IR between indices i and j
OpensIn(i, j) == {k \in i..j : IsOp(k, OP_OPEN_JMP)}
ClosesIn(i, j) == {k \in i..j : IsOp(k, OP_CLOSE_JMP)}

\* the Close that ends the loop the Open at IR index i starts
PairedClose(i) ==
    CHOOSE j \in (i + 1)..(Len(opcodes) - 1) :
        /\ Cardinality(OpensIn(i, j)) = Cardinality(ClosesIn(i, j))
        /\ \A k \in (i + 1)..(j - 1) :
              Cardinality(OpensIn(i, k)) # Cardinality(ClosesIn(i, k))

\* the Open that starts the loop the Close at IR index j ends
PairedOpen(j) ==
    CHOOSE i \in 0..(j - 1) :
        /\ Cardinality(OpensIn(i, j)) = Cardinality(ClosesIn(i, j))
        /\ \A k \in (i + 1)..(j - 1) :
              Cardinality(OpensIn(k, j)) # Cardinality(ClosesIn(k, j))

\* the instruction at pc is an Open or Close that tests a cell of the tape
TestsCell(kind) ==
    /\ ExecutesOp(kind)
    /\ ValidIndex(mptr + opcodes[pc + 1].offset)

TestedCell == Get(memory, mptr + opcodes[pc + 1].offset)

\* an Open that finds its cell 0 goes to the index after the paired Close
OpenTakenEdge ==
    (TestsCell(OP_OPEN_JMP) /\ TestedCell = 0) => pc' = PairedClose(pc) + 1

PcInRange == phase = "eval" => (pc >= 0 /\ pc <= Len(opcodes))

\* C13 as stated: an Open executed on a zero cell is followed by the
\* instruction at the IR index immediately after the paired Close (or the run
\* ends), a Close executed on a nonzero cell is followed by the instruction at
\* the IR index immediately after the paired Open, and the program counter
\* stays within 0..IR length.
C13_AsStated ==
    /\ [][ /\ OpenTakenEdge
           /\ (TestsCell(OP_CLOSE_JMP) /\ TestedCell # 0) => pc' = PairedOpen(pc) + 1
         ]_vars
    /\ []PcInRange

\* C13: an Open executed on a zero cell is followed by the instruction at the
\* IR index immediately after the paired Close (or the run ends); a Close
\* executed on a nonzero cell is followed by the paired Open itself, which
\* tests the cell again; the program counter stays within 0..IR length.
C13_JumpTargets ==
    /\ [][ /\ OpenTakenEdge
           /\ (TestsCell(OP_CLOSE_JMP) /\ TestedCell # 0) =>
                 /\ pc' = PairedOpen(pc)
                 /\ IsOp(pc', OP_OPEN_JMP)
         ]_vars
    /\ []PcInRange

\* in +[] the Close found cell 0 nonzero and the run is back on the Open
C13_Witness ==
    /\ source = <<"+", "[", "]">>
    /\ phase = "eval"
    /\ outcome = "running"
    /\ steps = 3
    /\ pc = 1
    /\ IsOp(pc, OP_OPEN_JMP)
    /\ Get(memory, mptr) # 0

\* the optimized instruction a three-character loop window stands for
WindowOp(w) ==
    IF w \in {<<"[", "-", "]">>, <<"[", "+", "]">>} THEN OP_CLEAR
    ELSE IF w = <<"[", ">", "]">> THEN OP_SCANR
    ELSE IF w = <<"[", "<", "]">> THEN OP_SCANL
    ELSE OP_OPEN_JMP

\* C14: whenever the assembler reaches a "[" whose three-character window is
\* [-] or [+] (resp. [>] / [<]), at any position of the sanitized source, the
\* last three characters included, it emits exactly one Clear (resp. ScanR /
\* ScanL) with offset equal to the pending pointer drift, emits no Open, Close
\* or Move for the loop, consumes exactly 3 characters and resets the drift.
C14_WindowsRecognized ==
    LET code == cleanup(source)
        size == Len(code)
        sts == ParseStates(code, size,
                           [pc |-> 0, mptr |-> 0, opcodes |-> <<>>,
                            loop_starts |-> <<>>, err |-> ErrNone])
    IN  \A k \in 1..Len(sts) :
           LET st == sts[k]
               w == Slice(code, st.pc, st.pc + 3)
               nx == ParseIter(code, size, st)
           IN  (At(code, st.pc) = "[" /\ WindowOp(w) # OP_OPEN_JMP) =>
                  /\ Len(nx.opcodes) = Len(st.opcodes) + 1
                  /\ nx.opcodes[Len(nx.opcodes)].op = WindowOp(w)
                  /\ nx.opcodes[Len(nx.opcodes)].offset = st.mptr
                  /\ SubSeq(nx.opcodes, 1, Len(st.opcodes)) = st.opcodes
                  /\ nx.loop_starts = st.loop_starts
                  /\ nx.pc = st.pc + 3
                  /\ nx.mptr = 0

====
